---- MODULE Spec2Model ----
(***************************************************************************)
(* ECG_PDF._scan of pdf2bsml/AliveCor/ecg2bsml.py as a state machine.      *)
(*                                                                         *)
(* One step of the machine is one iteration of `for d in data.split()`,    *)
(* i.e. one token.  The token stream is the input; it is revealed one      *)
(* token at a time.  The end of the stream is the step Finish, which       *)
(* builds self.ecg and self.beats.                                         *)
(*                                                                         *)
(* Inputs.  A stream is a prefix of one of the scripted streams of Script  *)
(* (a miniature AliveCor page, the border block on its own and after a     *)
(* first block, a page drawn under scaling and translating matrices, and a *)
(* trace without a trace grid), followed by at most MaxFree arbitrary      *)
(* operators, each with an operand run taken from the prefixes of          *)
(* OperandLists.                                                           *)
(*                                                                         *)
(* A definition named as a variant is the definition that follows it with  *)
(* one slip, of the kind the claims exclude.                               *)
(*                                                                         *)
(* Numbers.  Every number the scan handles is a decimal with at most one   *)
(* fractional digit in the token, and the only product the scan forms is   *)
(* (scale * coordinate) in GraphicsMap.map, so every value is an exact     *)
(* multiple of 1/100.  A number is modelled by the integer that counts     *)
(* hundredths: 0.4 is 40, 1 is 100, -1 is -100.  Float rounding is not     *)
(* modelled.  Assertions are modelled as enabled (python without -O).      *)
(***************************************************************************)
EXTENDS Integers, Sequences, FiniteSets, TLC

(***************************************************************************)
(* Bounds of the exploration.                                              *)
(***************************************************************************)
\* Number of arbitrary operators that may follow the scripted prefix.
MaxFree == 1

(***************************************************************************)
(* Python values.                                                          *)
(***************************************************************************)
\* None, and a value that is not None, for X_min, X_max, T_width, t_start.
None == << >>
Some(v) == << v >>
Val(o) == o[1]

\* seq[i] with python's indexing: i counts from 0, a negative i from the end.
PyInRange(seq, i) == (0 - Len(seq)) <= i /\ i < Len(seq)
PyIndex(seq, i) == IF i >= 0 THEN seq[i + 1] ELSE seq[Len(seq) + i + 1]

\* assert(len(params) == n) of lines 246, 250, 268 and 288.
\* Variant: surplus operands are accepted.
ArgCountAtLeast(ps, n) == Len(ps) >= n
ArgCountOk(ps, n) == Len(ps) = n

\* graphicstate.pop(): the popped element and the remaining list.
\* Variant: the oldest element is taken.
PopValueFirst(seq) == seq[1]
PopValue(seq) == seq[Len(seq)]
\* Variant: the popped element stays on the list.
PopRestKeep(seq) == seq
PopRest(seq) == SubSeq(seq, 1, Len(seq) - 1)

(***************************************************************************)
(* Tokens.  int(d), then float(d), then operator keyword (lines 219-226).  *)
(***************************************************************************)
IntTokens == {"0", "1", "-1", "5", "10", "20", "50", "75", "80", "100"}
FloatTokens == {"0.1", "0.3", "0.4", "0.6", "1.5"}
KeywordTokens == {"q", "Q", "BT", "ET", "cm", "w", "m", "l"}
OtherTokens == {"S", "h", "f", "cs", "scn"}

\* int(d): the integer's value in hundredths; None when int() raises.
ParseInt(d) ==
  CASE d = "0" -> Some(0)
    [] d = "1" -> Some(100)
    [] d = "-1" -> Some(-100)
    [] d = "5" -> Some(500)
    [] d = "10" -> Some(1000)
    [] d = "20" -> Some(2000)
    [] d = "50" -> Some(5000)
    [] d = "75" -> Some(7500)
    [] d = "80" -> Some(8000)
    [] d = "100" -> Some(10000)
    [] OTHER -> None

\* float(d): the value in hundredths; None when float() raises.
ParseFloat(d) ==
  CASE ParseInt(d) # None -> ParseInt(d)
    [] d = "0.1" -> Some(10)
    [] d = "0.3" -> Some(30)
    [] d = "0.4" -> Some(40)
    [] d = "0.6" -> Some(60)
    [] d = "1.5" -> Some(150)
    [] OTHER -> None

\* v of lines 219-223.
TokenValue(d) == IF ParseInt(d) # None THEN ParseInt(d) ELSE ParseFloat(d)

(***************************************************************************)
(* GraphicsMap.                                                            *)
(***************************************************************************)
\* The product of two numbers given in hundredths, in hundredths.
Mul(a, b) == (a * b) \div 100

GraphicsMap(Sx, Sy, Tx, Ty) == << Sx, Sy, Tx, Ty >>
GraphicsMapDefault == GraphicsMap(100, 100, 0, 0)

\* Variant: the translation is left out.
mapScaleOnly(matrix, point) ==
  << Mul(matrix[1], point[1]), Mul(matrix[2], point[2]) >>
map(matrix, point) ==
  << Mul(matrix[1], point[1]) + matrix[3],
     Mul(matrix[2], point[2]) + matrix[4] >>

(***************************************************************************)
(* The inputs.                                                             *)
(***************************************************************************)
\* The border block of the page on its own, and after a first block.
BorderBlock ==
  << "q", "q", "0.4", "w", "1", "0", "0", "-1", "0", "0", "cm",
     "0", "0", "m", "100", "0", "l", "S", "Q", "Q" >>
FirstBlock == << "q", "Q" >>

\* A miniature page with the structure the class comment describes
\* (lines 91-136): stage 1; stage 2 with a text block, the border, the beat
\* grid, the vertical grid and the trace grid; stage 3 with the calibration
\* pulse, a trace, two beat markers and a second trace.
Page ==
  << "q", "Q" >>
  \o << "q", "q", "BT", "ET", "Q" >>
  \o << "0.4", "w" >>
  \o << "q", "1", "0", "0", "-1", "0", "0", "cm",
        "0", "0", "m", "100", "0", "l", "h", "S", "Q" >>
  \o << "q", "0", "0", "m", "100", "0", "l", "S", "Q" >>
  \o << "0.3", "w" >>
  \o << "q", "0", "0", "m", "0", "100", "l", "S", "Q" >>
  \o << "q", "0", "50", "m", "100", "50", "l",
        "0", "80", "m", "100", "80", "l", "S", "Q" >>
  \o << "Q" >>
  \o << "q", "1.5", "w" >>
  \o << "q", "0", "50", "m", "5", "50", "l", "S", "Q" >>
  \o << "0.4", "w" >>
  \o << "q", "10", "75", "m", "20", "50", "l", "S", "Q" >>
  \o << "0.6", "w" >>
  \o << "q", "10", "0", "m", "10", "5", "l", "S", "Q" >>
  \o << "q", "20", "0", "m", "20", "5", "l", "S", "Q" >>
  \o << "0.4", "w" >>
  \o << "q", "10", "75", "m", "20", "80", "l", "S", "Q" >>
  \o << "Q" >>

\* A page whose matrices scale and translate: a matrix set outside the
\* border block, two matrices in a row inside it, and the beat grid, the
\* trace grid, a trace and a beat marker drawn under the scaling matrix.
ScaledPage ==
  << "q", "Q" >>
  \o << "q", "5", "0", "0", "-1", "10", "100", "cm", "0.4", "w" >>
  \o << "q", "1", "0", "0", "-1", "0", "0", "cm",
        "5", "0", "0", "-1", "10", "100", "cm",
        "10", "75", "m", "20", "50", "l", "Q" >>
  \o << "10", "75", "m", "0.3", "w", "q", "Q", "10", "50", "m", "Q" >>
  \o << "q", "0.4", "w" >>
  \o << "q", "5", "0", "0", "-1", "10", "100", "cm",
        "10", "75", "m", "20", "50", "l", "S", "Q" >>
  \o << "q", "5", "0", "0", "-1", "10", "100", "cm", "20", "0", "m", "Q" >>
  \o << "Q" >>

\* A trace declared and drawn although no trace grid was drawn.
TraceWithoutGrid ==
  << "q", "Q", "q", "Q", "q", "0.4", "w", "q", "10", "75", "m" >>

Script(name) ==
  CASE name = "page" -> Page
    [] name = "border" -> BorderBlock
    [] name = "first+border" -> FirstBlock \o BorderBlock
    [] name = "scaled" -> ScaledPage
    [] name = "nogrid" -> TraceWithoutGrid
ScriptNames == {"page", "border", "first+border", "scaled", "nogrid"}

\* The operand runs of the arbitrary operators are the prefixes of these
\* lists, so every operator is also reached with a wrong operand count.
OperandLists ==
  { << "1", "0", "0", "-1", "0", "0" >>,
    << "1", "0.1", "0", "0", "5", "5" >>,
    << "1", "0", "1", "0", "0", "0" >>,
    << "0.4" >>, << "0.3" >>, << "1.5" >>, << "0.6" >>,
    << "100", "0" >>, << "10", "75" >> }

Values(toks) == [i \in 1..Len(toks) |-> Val(TokenValue(toks[i]))]
OperandPrefixes ==
  UNION { { SubSeq(Values(l), 1, n) : n \in 0..Len(l) } : l \in OperandLists }

(***************************************************************************)
(* State.                                                                  *)
(***************************************************************************)
VARIABLES
  pc,             \* "scan": in the loop; "failed": an exception left _scan;
                  \* "done": _scan returned
  err,            \* the exception that left _scan, "" when none
  d,              \* the loop variable: the token of the last iteration
  stage, level, intext, params, transform, graphicstate, linestate,
  X_min, X_max, T_width, t_start, subtrace,
  origins_trace, origins_beats, times, trace, beats,
  self_ecg,       \* self.ecg: None until line 300, then << times, trace >>
  self_beats,     \* self.beats: None until line 304
  unmatched,      \* history: number of q tokens not yet matched by a Q token
  script,         \* input: the name of the scripted stream
  pos,            \* input: number of tokens read from the scripted stream
  offscript,      \* input: an arbitrary token has been read
  free            \* input: number of arbitrary operators read

control == << pc, err >>
gstate == << stage, level, transform, graphicstate >>
border == << X_min, X_max, T_width >>
origins == << origins_trace, origins_beats >>
samples == << t_start, times, trace, beats >>
outputs == << self_ecg, self_beats >>
input == << script, pos, offscript, free >>
vars ==
  << pc, err, d, stage, level, intext, params, transform, graphicstate,
     linestate, X_min, X_max, T_width, t_start, subtrace, origins_trace,
     origins_beats, times, trace, beats, self_ecg, self_beats, unmatched,
     script, pos, offscript, free >>

\* Lines 198-216, before the first token.
Init ==
  /\ pc = "scan"
  /\ err = ""
  /\ d = ""
  /\ stage = 0
  /\ level = 0
  /\ intext = FALSE
  /\ params = << >>
  /\ transform = GraphicsMapDefault
  /\ graphicstate = << >>
  /\ linestate = 0
  /\ X_min = None
  /\ X_max = None
  /\ T_width = None
  /\ t_start = None
  /\ subtrace = -1
  /\ origins_trace = << >>
  /\ origins_beats = << >>
  /\ times = << >>
  /\ trace = << >>
  /\ beats = << >>
  /\ self_ecg = None
  /\ self_beats = None
  /\ unmatched = 0
  /\ script \in ScriptNames
  /\ pos = 0
  /\ offscript = FALSE
  /\ free = 0

(***************************************************************************)
(* Bookkeeping shared by the token steps.                                  *)
(***************************************************************************)
\* The loop reads token tok: the next token of the script, or an arbitrary
\* token after a prefix of the script that ends with an operator.
Read(tok) ==
  /\ pc = "scan"
  /\ d' = tok
  /\ \/ /\ ~ offscript
        /\ pos < Len(Script(script))
        /\ tok = Script(script)[pos + 1]
        /\ pos' = pos + 1
        /\ UNCHANGED << script, offscript, free >>
     \/ /\ free < MaxFree
        /\ offscript \/ params = << >>
        /\ offscript' = TRUE
        /\ IF TokenValue(tok) # None
           THEN /\ Append(params, Val(TokenValue(tok))) \in OperandPrefixes
                /\ free' = free
           ELSE free' = free + 1
        /\ UNCHANGED << script, pos >>

\* An exception leaves the loop and _scan: line 298 and lines 300-305 are
\* not reached.
\* Variant: the exception is swallowed and the loop goes on.
RaiseSwallowed(e) ==
  /\ pc' = "scan"
  /\ err' = e
  /\ UNCHANGED << params, outputs >>
Raise(e) ==
  /\ pc' = "failed"
  /\ err' = e
  /\ UNCHANGED << params, outputs >>

\* The iteration reaches line 298.
\* Variant: line 298 is left out and the operands stay.
EndOfIterationKeep ==
  /\ UNCHANGED params
  /\ UNCHANGED << control, outputs >>
EndOfIteration ==
  /\ params' = << >>
  /\ UNCHANGED << control, outputs >>

(***************************************************************************)
(* Lines 224-226: a numeric token.                                         *)
(***************************************************************************)
Number ==
  \E tok \in IntTokens \cup FloatTokens :
    /\ Read(tok)
    /\ TokenValue(tok) # None
    /\ params' = Append(params, Val(TokenValue(tok)))
    /\ UNCHANGED << control, outputs, gstate, intext, linestate, border,
                    subtrace, origins, samples, unmatched >>

(***************************************************************************)
(* Lines 228-232: q.                                                       *)
(***************************************************************************)
\* Variant: the stage advances at every q.
NextStageAlways(s, lv) == s + 1
\* Variant: a q one level down counts as well.
NextStageAtDepthOne(s, lv) == IF lv <= 1 THEN s + 1 ELSE s
NextStage(s, lv) == IF lv = 0 THEN s + 1 ELSE s

Save ==
  /\ Read("q")
  /\ graphicstate' = Append(graphicstate, transform)
  /\ transform' = GraphicsMapDefault
  /\ stage' = NextStage(stage, level)
  /\ level' = level + 1
  /\ unmatched' = unmatched + 1
  /\ EndOfIteration
  /\ UNCHANGED << intext, linestate, border, subtrace, origins, samples >>

(***************************************************************************)
(* Lines 234-237: Q.                                                       *)
(***************************************************************************)
\* Variant: the idle role 0 advances too.
NextRoleAlways(ls) == ls + 1
NextRole(ls) == IF ls # 0 THEN ls + 1 ELSE ls

Restore ==
  /\ Read("Q")
  /\ IF graphicstate = << >>
     THEN \* list.pop() of an empty list
          /\ Raise("IndexError")
          /\ UNCHANGED << gstate, linestate, unmatched >>
     ELSE /\ transform' = PopValue(graphicstate)
          /\ graphicstate' = PopRest(graphicstate)
          /\ linestate' = NextRole(linestate)
          /\ level' = level - 1
          /\ unmatched' = unmatched - 1
          /\ EndOfIteration
          /\ UNCHANGED stage
  /\ UNCHANGED << intext, border, subtrace, origins, samples >>

(***************************************************************************)
(* Lines 239-243: BT, ET.                                                  *)
(***************************************************************************)
BeginText ==
  /\ Read("BT")
  /\ intext' = TRUE
  /\ EndOfIteration
  /\ UNCHANGED << gstate, linestate, border, subtrace, origins, samples,
                  unmatched >>

EndText ==
  /\ Read("ET")
  /\ intext' = FALSE
  /\ EndOfIteration
  /\ UNCHANGED << gstate, linestate, border, subtrace, origins, samples,
                  unmatched >>

(***************************************************************************)
(* Lines 245-247: cm.                                                      *)
(***************************************************************************)
\* The condition of the assert of line 246.
\* Variant: only the operand count is asserted.
CmAssertCountOnly(ps) == ArgCountOk(ps, 6)
CmAssert(ps) == ArgCountOk(ps, 6) /\ SubSeq(ps, 2, 3) = << 0, 0 >>

ConcatMatrix ==
  /\ Read("cm")
  /\ IF ~ CmAssert(params)
     THEN /\ Raise("AssertionError")
          /\ UNCHANGED transform
     ELSE /\ transform' = GraphicsMap(params[1], params[4], params[5], params[6])
          /\ EndOfIteration
  /\ UNCHANGED << stage, level, graphicstate, intext, linestate, border,
                  subtrace, origins, samples, unmatched >>

(***************************************************************************)
(* Lines 249-265: w.                                                       *)
(***************************************************************************)
\* linestate after lines 252-265.
WidthRole(s, w, ls) ==
  CASE s = 2 /\ w = 40 -> 1
    [] s = 2 /\ w = 30 -> 11
    [] s = 3 /\ w = 150 -> 21
    [] s = 3 /\ w = 40 -> 22
    [] s = 3 /\ w = 60 -> 23
    [] OTHER -> ls

\* subtrace after lines 252-265.
\* Variant: every width declaration of stage 3 starts a subtrace.
WidthSubtraceStage3(s, w, st) == IF s = 3 THEN st + 1 ELSE st
WidthSubtrace(s, w, st) == IF s = 3 /\ w = 40 THEN st + 1 ELSE st

SetLineWidth ==
  /\ Read("w")
  /\ IF ~ ArgCountOk(params, 1)
     THEN /\ Raise("AssertionError")
          /\ UNCHANGED << linestate, subtrace >>
     ELSE /\ linestate' = WidthRole(stage, params[1], linestate)
          /\ subtrace' = WidthSubtrace(stage, params[1], subtrace)
          /\ EndOfIteration
  /\ UNCHANGED << gstate, intext, border, origins, samples, unmatched >>
(***************************************************************************)
(* Lines 267-285: m.                                                       *)
(***************************************************************************)
\* t_start after lines 277-282 (T_width is a number when t_start is set).
\* Variant: a later move leaves t_start where it is.
TraceMoveCursorKeep(ts, x, tw) ==
  IF ts = None THEN Some(x) ELSE ts
TraceMoveCursor(ts, x, tw) ==
  IF ts = None THEN Some(x) ELSE Some(Val(ts) - Val(tw))

\* The element lines 277-282 append to times.
TraceMoveTime(ts, x, tw) ==
  IF ts = None THEN 0 ELSE x - Val(TraceMoveCursor(ts, x, tw))

\* The test of line 284.
\* Variant: an equality test, as for the other roles.
IsBeatRoleExact(ls) == ls = 23
\* Variant: the calibration role is taken for a beat-marker role.
IsBeatRoleOrCalibration(ls) == ls >= 23 \/ ls = 21
IsBeatRole(ls) == ls >= 23

\* x - t_start of line 285.
\* Variant: the time cursor is not subtracted.
BeatTimeAbsolute(x, ts) == x
BeatTime(x, ts) == x - Val(ts)

\* X_max - X_min of line 293, X_max being x.
\* Variant: the width is measured from 0.
BorderWidthFromZero(x, xmin) == x
BorderWidth(x, xmin) == x - Val(xmin)

\* y - origins_trace[subtrace] of lines 283 and 296.
Amplitude(y, orig, st) == y - PyIndex(orig, st)

Move ==
  /\ Read("m")
  /\ IF ~ ArgCountOk(params, 2)
     THEN /\ Raise("AssertionError")
          /\ UNCHANGED << border, origins, samples >>
     ELSE
       LET x == map(transform, params)[1]
           y == map(transform, params)[2]
       IN CASE linestate = 1 ->
                 /\ X_min' = Some(x)
                 /\ EndOfIteration
                 /\ UNCHANGED << X_max, T_width, origins, samples >>
            [] linestate = 2 ->
                 /\ origins_beats' = Append(origins_beats, y)
                 /\ EndOfIteration
                 /\ UNCHANGED << border, origins_trace, samples >>
            [] linestate = 12 ->
                 /\ origins_trace' = Append(origins_trace, y)
                 /\ EndOfIteration
                 /\ UNCHANGED << border, origins_beats, samples >>
            [] linestate = 22 ->
                 /\ IF t_start # None /\ T_width = None
                    THEN \* line 281: number - None
                         /\ Raise("TypeError")
                         /\ UNCHANGED samples
                    ELSE /\ t_start' = TraceMoveCursor(t_start, x, T_width)
                         /\ times' =
                              Append(times, TraceMoveTime(t_start, x, T_width))
                         /\ IF ~ PyInRange(origins_trace, subtrace)
                            THEN \* line 283: list index out of range
                                 /\ Raise("IndexError")
                                 /\ UNCHANGED trace
                            ELSE /\ trace' = Append(trace,
                                       Amplitude(y, origins_trace, subtrace))
                                 /\ EndOfIteration
                         /\ UNCHANGED beats
                 /\ UNCHANGED << border, origins >>
            [] IsBeatRole(linestate) ->
                 /\ IF t_start = None
                    THEN \* line 285: number - None
                         /\ Raise("TypeError")
                         /\ UNCHANGED beats
                    ELSE /\ beats' = Append(beats, BeatTime(x, t_start))
                         /\ EndOfIteration
                 /\ UNCHANGED << border, origins, t_start, times, trace >>
            [] OTHER ->
                 /\ EndOfIteration
                 /\ UNCHANGED << border, origins, samples >>
  /\ UNCHANGED << gstate, intext, linestate, subtrace, unmatched >>

(***************************************************************************)
(* Lines 287-296: l.                                                       *)
(***************************************************************************)
Line ==
  /\ Read("l")
  /\ IF ~ ArgCountOk(params, 2)
     THEN /\ Raise("AssertionError")
          /\ UNCHANGED << border, samples >>
     ELSE
       LET x == map(transform, params)[1]
           y == map(transform, params)[2]
       IN CASE linestate = 1 ->
                 /\ IF T_width # None
                    THEN /\ EndOfIteration
                         /\ UNCHANGED << X_max, T_width >>
                    ELSE /\ X_max' = Some(x)
                         /\ IF X_min = None
                            THEN \* line 293: number - None
                                 /\ Raise("TypeError")
                                 /\ UNCHANGED T_width
                            ELSE /\ T_width' = Some(BorderWidth(x, X_min))
                                 /\ EndOfIteration
                 /\ UNCHANGED << X_min, samples >>
            [] linestate = 22 ->
                 /\ IF t_start = None
                    THEN \* line 295: number - None
                         /\ Raise("TypeError")
                         /\ UNCHANGED << times, trace >>
                    ELSE /\ times' = Append(times, x - Val(t_start))
                         /\ IF ~ PyInRange(origins_trace, subtrace)
                            THEN \* line 296: list index out of range
                                 /\ Raise("IndexError")
                                 /\ UNCHANGED trace
                            ELSE /\ trace' = Append(trace,
                                       Amplitude(y, origins_trace, subtrace))
                                 /\ EndOfIteration
                 /\ UNCHANGED << border, t_start, beats >>
            [] OTHER ->
                 /\ EndOfIteration
                 /\ UNCHANGED << border, samples >>
  /\ UNCHANGED << gstate, intext, linestate, subtrace, origins, unmatched >>

(***************************************************************************)
(* Any other operator keyword: only line 298.                              *)
(***************************************************************************)
Other ==
  \E tok \in OtherTokens :
    /\ Read(tok)
    /\ TokenValue(tok) = None
    /\ tok \notin KeywordTokens
    /\ EndOfIteration
    /\ UNCHANGED << gstate, intext, linestate, border, subtrace, origins,
                    samples, unmatched >>

(***************************************************************************)
(* Lines 300-305: the stream is exhausted.                                 *)
(*                                                                         *)
(* POINTS2MM is 25.4/72 = 254/720.  A finalized number is an integer that  *)
(* counts units of 1/(100 * 720 * T_scale * V_scale), in which             *)
(* POINTS2MM/T_scale is 254 * V_scale and POINTS2MM/V_scale 254 * T_scale. *)
(* Every element of times, trace and beats is a float (lines 77 and 279),  *)
(* so the arrays of lines 300 and 304 are float arrays and the in-place    *)
(* products of lines 301, 302 and 305 are defined.                         *)
(***************************************************************************)
T_scale == 25
V_scale == 10
POINTS2MM_x720 == 254

ImulTime(a) == [i \in 1..Len(a) |-> a[i] * POINTS2MM_x720 * V_scale]
\* Variant: the amplitudes get the factor of the times.
ImulVoltAsTime(a) == [i \in 1..Len(a) |-> a[i] * POINTS2MM_x720 * V_scale]
ImulVolt(a) == [i \in 1..Len(a) |-> a[i] * POINTS2MM_x720 * T_scale]

Finish ==
  /\ pc = "scan"
  /\ pc' = "done"
  /\ self_ecg' = Some(<< ImulTime(times), ImulVolt(trace) >>)
  /\ self_beats' = Some(ImulTime(beats))
  /\ UNCHANGED << err, d, params, gstate, intext, linestate, border,
                  subtrace, origins, samples, unmatched, input >>

Next ==
  \/ Number
  \/ Save
  \/ Restore
  \/ BeginText
  \/ EndText
  \/ ConcatMatrix
  \/ SetLineWidth
  \/ Move
  \/ Line
  \/ Other
  \/ Finish

Spec == Init /\ [][Next]_vars
(***************************************************************************)
(* The claims.                                                             *)
(***************************************************************************)
\* This step is an iteration of the loop for the operator keyword tok.
OpRead(tok) == pc = "scan" /\ d' = tok /\ (pos' # pos \/ free' # free)

\* The point of a move or line, in transform space (lines 269 and 289).
PointX == map(transform, params)[1]
PointY == map(transform, params)[2]

\* Neither self.ecg nor self.beats has been produced.
NoOutput == self_ecg = None /\ self_beats = None

\* The stream read so far is exactly the script.
ScriptRead == ~ offscript /\ pos = Len(Script(script))

scanstate ==
  << stage, level, intext, transform, graphicstate, linestate, X_min, X_max,
     T_width, t_start, subtrace, origins_trace, origins_beats, times, trace,
     beats >>

\* C1, as stated: after the stream `q q 0.4 w 1 0 0 -1 0 0 cm 0 0 m 100 0 l
\* S Q Q` read from the initial state, borderXMin = 0, borderXMax = 100 and
\* timeWidth = 100.
C1_BorderFromInitialState ==
  (script = "border" /\ ScriptRead)
    => (X_min = Some(0) /\ X_max = Some(10000) /\ T_width = Some(10000))

\* C1, amended: when one top-level block `q Q` precedes that stream, its
\* outer q advances stage to 2, the width declaration sets role 1, and after
\* the block borderXMin = 0, borderXMax = 100 and timeWidth = 100.
C1_BorderAfterFirstBlock ==
  (script = "first+border" /\ ~ offscript) =>
    /\ pos >= 3 => stage = 2
    /\ pos = 6 => linestate = 1
    /\ ScriptRead =>
         (X_min = Some(0) /\ X_max = Some(10000) /\ T_width = Some(10000))

C1_Witness ==
  /\ script = "first+border"
  /\ ScriptRead
  /\ pc = "scan"
  /\ stage = 2
  /\ T_width = Some(10000)

\* C2: when the scan has returned and every q of the stream was matched by
\* a later Q, the graphics-state stack is empty and level is 0.
C2_SaveRestoreBalance ==
  (pc = "done" /\ unmatched = 0) => (graphicstate = << >> /\ level = 0)

C2_Witness ==
  /\ pc = "done"
  /\ unmatched = 0
  /\ script = "page"
  /\ ScriptRead
  /\ graphicstate = << >>

\* C3: a Q read while the stack is empty fails the scan at that token
\* without changing the scan state; every step is taken by a scan that has
\* not failed, so no later token is processed; a failed scan has produced
\* neither self.ecg nor self.beats.
C3_UnmatchedRestoreFails ==
  [][ /\ pc = "scan"
      /\ (OpRead("Q") /\ graphicstate = << >>)
           => (pc' = "failed" /\ err' = "IndexError" /\ UNCHANGED scanstate)
      /\ pc' = "failed" => NoOutput' ]_vars

C3_Witness ==
  /\ pc = "failed"
  /\ d = "Q"
  /\ err = "IndexError"
  /\ graphicstate = << >>
  /\ NoOutput

\* C4: a cm with six operands of which the 2nd or the 3rd is not zero fails
\* the scan with the assertion of line 246; transform is not changed and no
\* output is produced.
C4_UnsupportedTransform ==
  [][ (OpRead("cm") /\ Len(params) = 6 /\ (params[2] # 0 \/ params[3] # 0))
        => /\ pc' = "failed"
           /\ err' = "AssertionError"
           /\ transform' = transform
           /\ NoOutput' ]_vars

C4_Witness ==
  /\ pc = "failed"
  /\ d = "cm"
  /\ params = << 100, 10, 0, 0, 500, 500 >>
  /\ transform = GraphicsMapDefault
  /\ NoOutput

\* The number of operands an operator requires.
Arity(tok) == CASE tok = "cm" -> 6 [] tok = "w" -> 1 [] OTHER -> 2

\* C5: m, l, w or cm read with a number of pending operands other than 2,
\* 2, 1 and 6 fails the scan at that token, whatever the role and the
\* stage, with the scan state unchanged and no output.
C5_MalformedOperandCount ==
  [][ \A tok \in {"m", "l", "w", "cm"} :
        (OpRead(tok) /\ Len(params) # Arity(tok))
          => /\ pc' = "failed"
             /\ err' = "AssertionError"
             /\ UNCHANGED scanstate
             /\ NoOutput' ]_vars

C5_Witness ==
  /\ pc = "failed"
  /\ d = "m"
  /\ Len(params) = 1
  /\ stage = 3
  /\ linestate = 22
  /\ NoOutput

\* C6: a Q that does not fail adds exactly 1 to a role other than 0 and
\* leaves role 0 at 0; a step that is neither a Q nor a w leaves the role
\* unchanged.
C6_RoleAdvance ==
  [][ /\ (OpRead("Q") /\ pc' = "scan")
           => linestate' = (IF linestate = 0 THEN 0 ELSE linestate + 1)
      /\ (~ OpRead("Q") /\ ~ OpRead("w")) => linestate' = linestate ]_vars

\* On the page, role 1 is set by `0.4 w`, and the restores that close the
\* border block and the beat-grid block take it to 3.
C6_Witness ==
  /\ script = "page"
  /\ ~ offscript
  /\ stage = 2
  /\ d = "Q"
  /\ linestate = 3
  /\ origins_beats # << >>

\* C7: a w with one operand sets the role to 1 for (stage 2, 0.4), 11 for
\* (stage 2, 0.3), 21 for (stage 3, 1.5), 22 for (stage 3, 0.4) and 23 for
\* (stage 3, 0.6), whatever the role was; subtrace grows by 1 exactly for
\* (stage 3, 0.4); any other (stage, width) changes neither.
C7_WidthDeclaration ==
  [][ (OpRead("w") /\ Len(params) = 1) =>
        LET w == params[1]
            listed == \/ stage = 2 /\ w \in {40, 30}
                      \/ stage = 3 /\ w \in {150, 40, 60}
        IN /\ (stage = 2 /\ w = 40) => linestate' = 1
           /\ (stage = 2 /\ w = 30) => linestate' = 11
           /\ (stage = 3 /\ w = 150) => linestate' = 21
           /\ (stage = 3 /\ w = 40) => linestate' = 22
           /\ (stage = 3 /\ w = 60) => linestate' = 23
           /\ ~ listed => linestate' = linestate
           /\ subtrace' =
                (IF stage = 3 /\ w = 40 THEN subtrace + 1 ELSE subtrace)
           /\ pc' = "scan" ]_vars

\* The second trace declaration of the page, made when the role was 25.
C7_Witness ==
  /\ pc = "scan"
  /\ d = "w"
  /\ stage = 3
  /\ linestate = 22
  /\ subtrace = 1

C10_AmplitudeBaseline ==
  [][ ((OpRead("m") \/ OpRead("l")) /\ linestate = 22 /\ trace' # trace) =>
        /\ 0 <= subtrace
        /\ subtrace < Len(origins_trace)
        /\ trace' = Append(trace, PointY - origins_trace[subtrace + 1])
      ]_vars

\* C11, as stated: a move or line read in role 22 with two operands, when
\* there is no trace origin at index subtrace (subtrace = -1 included),
\* fails, and appends no amplitude.
C11_MissingOriginFails ==
  [][ ( /\ OpRead("m") \/ OpRead("l")
        /\ linestate = 22
        /\ Len(params) = 2
        /\ ~ (0 <= subtrace /\ subtrace < Len(origins_trace)) )
      => (pc' = "failed" /\ trace' = trace) ]_vars

\* C12: in every state the loop has reached without a failure, times and
\* trace have the same length; the two arrays of self.ecg have the length
\* of times and of trace.
C12_ParallelArrays ==
  /\ pc # "failed" => Len(times) = Len(trace)
  /\ pc = "done" =>
       /\ Len(Val(self_ecg)[1]) = Len(times)
       /\ Len(Val(self_ecg)[2]) = Len(trace)
       /\ Len(Val(self_ecg)[1]) = Len(Val(self_ecg)[2])

\* The page has been read to its end and finalized: four samples, appended
\* by two moves and two lines.
C12_Witness ==
  /\ script = "page"
  /\ ScriptRead
  /\ pc = "done"
  /\ Len(times) = 4
  /\ Len(Val(self_ecg)[2]) = 4

\* The operator keywords the loop has no branch for, and BT and ET, whose
\* branches set only intext.
Unrecognized == (OtherTokens \cup KeywordTokens) \ {"q", "Q", "cm", "w", "m", "l"}

\* C13: an operator other than q, Q, cm, w, m and l never fails and leaves
\* stage, level, linestate, graphicstate, transform and every accumulator
\* unchanged, whatever operands precede it; after every operator the loop
\* has processed without failing, params is empty.
C13_UnrecognizedOperators ==
  [][ /\ \A tok \in Unrecognized :
           OpRead(tok) =>
             /\ pc' = "scan"
             /\ params' = << >>
             /\ UNCHANGED << stage, level, linestate, graphicstate,
                             transform, border, subtrace, origins, samples >>
      /\ \A tok \in OtherTokens \cup KeywordTokens :
           (OpRead(tok) /\ pc' = "scan") => params' = << >>
    ]_vars

\* After the page, an scn has been read with trace samples and beat times
\* accumulated.
C13_Witness ==
  /\ pc = "scan"
  /\ d = "scn"
  /\ free = 1
  /\ params = << >>
  /\ linestate = 24
  /\ times = << 0, 1000, 10000, 11000 >>
  /\ beats = << 0, 1000 >>

\* Sx * x + Tx and Sy * y + Ty for the operands x, y of a move or line and
\* the current transform << Sx, Sy, Tx, Ty >>, in hundredths.
C14_X == (transform[1] * params[1]) \div 100 + transform[3]
C14_Y == (transform[2] * params[2]) \div 100 + transform[4]

\* C14: a cm with operands a, 0, 0, d, e, f makes the transform
\* << a, d, e, f >> whatever it was before, and every value a move or line
\* records is taken from the point (Sx * x + Tx, Sy * y + Ty) of its
\* operands x, y under the current transform: X_min, X_max and t_start from
\* its first coordinate, the origins and the amplitude from its second.
C14_TransformMapping ==
  [][ /\ (OpRead("cm") /\ pc' = "scan") =>
           transform' = << params[1], params[4], params[5], params[6] >>
      /\ (OpRead("m") /\ Len(params) = 2 /\ pc' = "scan") =>
           /\ linestate = 1 => X_min' = Some(C14_X)
           /\ linestate = 2 => origins_beats' = Append(origins_beats, C14_Y)
           /\ linestate = 12 => origins_trace' = Append(origins_trace, C14_Y)
           /\ (linestate = 22 /\ t_start = None) => t_start' = Some(C14_X)
           /\ (linestate = 22 /\ t_start # None) =>
                times' = Append(times, C14_X - Val(t_start'))
           /\ (linestate = 22 /\ 0 <= subtrace) =>
                trace' = Append(trace, C14_Y - origins_trace[subtrace + 1])
           /\ linestate >= 23 => beats' = Append(beats, C14_X - Val(t_start))
      /\ (OpRead("l") /\ Len(params) = 2 /\ pc' = "scan") =>
           /\ (linestate = 1 /\ T_width = None) =>
                (X_max' = Some(C14_X) /\ T_width' = Some(C14_X - Val(X_min)))
           /\ linestate = 22 =>
                /\ times' = Append(times, C14_X - Val(t_start))
                /\ 0 <= subtrace =>
                     trace' = Append(trace, C14_Y - origins_trace[subtrace + 1])
    ]_vars

\* The border move `10 75 m` of the scaled page, read after `1 0 0 -1 0 0
\* cm` and then `5 0 0 -1 10 100 cm` in the same block: 5 * 10 + 10 = 60.
C14_Witness ==
  /\ script = "scaled"
  /\ ~ offscript
  /\ pc = "scan"
  /\ d = "m"
  /\ linestate = 1
  /\ transform = << 500, -100, 1000, 10000 >>
  /\ X_min = Some(6000)

\* C15: after a scan that has returned, self.ecg[0] is times and self.beats
\* is beats, element by element, each multiplied once by POINTS2MM/T_scale =
\* (254/720)/25, and self.ecg[1] is trace, each element multiplied once by
\* POINTS2MM/V_scale = (254/720)/10; lengths and order are kept.  In the
\* unit of the finalized numbers, 1/(720 * 25 * 10) of a hundredth, the two
\* factors are 254 * 10 and 254 * 25.
C15_FinalizationScaling ==
  pc = "done" =>
    /\ Len(Val(self_ecg)[1]) = Len(times)
    /\ Len(Val(self_ecg)[2]) = Len(trace)
    /\ Len(Val(self_beats)) = Len(beats)
    /\ \A i \in 1..Len(times) : Val(self_ecg)[1][i] = times[i] * 254 * 10
    /\ \A i \in 1..Len(trace) : Val(self_ecg)[2][i] = trace[i] * 254 * 25
    /\ \A i \in 1..Len(beats) : Val(self_beats)[i] = beats[i] * 254 * 10

\* The scaled page, read to its end and finalized: the time 50 and the
\* amplitude -25 are nonzero and get different factors.
C15_Witness ==
  /\ script = "scaled"
  /\ ScriptRead
  /\ pc = "done"
  /\ times = << 0, 5000 >>
  /\ trace = << -2500, 0 >>
  /\ beats = << 5000 >>
  /\ Val(self_ecg) = << << 0, 12700000 >>, << -15875000, 0 >> >>

\* C16: a q leaves the default transform (1, 1, 0, 0) current, whatever
\* the transform was, and puts the transform that was current on top of
\* graphicstate; a Q read with graphicstate not empty makes the top of
\* graphicstate current and removes it; no other step changes graphicstate.
\* So the Q that matches a q restores the transform current before that q,
\* whatever cm and nested q ... Q came between.
C16_SaveRestoreTransform ==
  [][ /\ OpRead("q") =>
           /\ transform' = << 100, 100, 0, 0 >>
           /\ graphicstate' = Append(graphicstate, transform)
      /\ (OpRead("Q") /\ graphicstate # << >>) =>
           /\ transform' = graphicstate[Len(graphicstate)]
           /\ graphicstate' = SubSeq(graphicstate, 1, Len(graphicstate) - 1)
      /\ ~ (OpRead("q") \/ OpRead("Q")) => graphicstate' = graphicstate
    ]_vars

\* The Q that ends the border block of the scaled page: the block was
\* opened under the transform (5, -1, 10, 100) and set two matrices of its
\* own.
C16_Witness ==
  /\ script = "scaled"
  /\ ~ offscript
  /\ pc = "scan"
  /\ d = "Q"
  /\ linestate = 2
  /\ level = 1
  /\ graphicstate = << << 100, 100, 0, 0 >> >>
  /\ transform = << 500, -100, 1000, 10000 >>

\* C17, as stated: in every state where T_width is set, T_width is
\* X_max - X_min.
C17_BorderExtentAlways ==
  T_width # None => Val(T_width) = Val(X_max) - Val(X_min)

\* C17, amended: T_width is set by a line read in role 1 with two operands
\* while T_width is unset and X_min is set, to that line's x minus the
\* current X_min, X_max being set to that x; once set, T_width and X_max
\* never change; a move read in role 1 sets X_min to its x at any time and
\* leaves T_width and X_max alone.
C17_BorderExtentOnce ==
  [][ /\ T_width # None => (T_width' = T_width /\ X_max' = X_max)
      /\ (T_width = None /\ T_width' # None) =>
           /\ OpRead("l")
           /\ linestate = 1
           /\ Len(params) = 2
           /\ X_min # None
           /\ X_min' = X_min
           /\ X_max' = Some(PointX)
           /\ Val(T_width') = PointX - Val(X_min)
      /\ (OpRead("l") /\ linestate = 1 /\ Len(params) = 2 /\ T_width = None
            /\ X_min # None) => T_width' # None
      /\ (OpRead("m") /\ linestate = 1 /\ Len(params) = 2) =>
           (X_min' = Some(PointX) /\ T_width' = T_width /\ X_max' = X_max)
    ]_vars

\* In the border block of the scaled page, after the line has set T_width
\* to 110 - 60 = 50, another move has been read and has moved X_min.
C17_Witness ==
  /\ script = "scaled"
  /\ pc = "scan"
  /\ d = "m"
  /\ linestate = 1
  /\ T_width = Some(5000)
  /\ X_max = Some(11000)
  /\ X_min # None
  /\ X_min # Some(6000)

C19_CalibrationAndUnmatchedRoles ==
  [][ ( /\ OpRead("m") \/ OpRead("l")
        /\ Len(params) = 2
        /\ linestate < 23
        /\ linestate \notin {1, 2, 12, 22} )
      => /\ pc' = "scan"
         /\ params' = << >>
         /\ UNCHANGED << border, origins, samples >> ]_vars

\* The line of the calibration block of the page, read in role 21 with
\* both grids recorded.
C19_Witness ==
  /\ script = "page"
  /\ ~ offscript
  /\ pc = "scan"
  /\ d = "l"
  /\ linestate = 21
  /\ params = << >>
  /\ origins_trace = << 5000, 8000 >>
  /\ times = << >>
  /\ beats = << >>

\* C20: before and after every step, level is the length of graphicstate
\* and is not negative; a q read at level 0 adds one to stage, and no other
\* step (a q read at another level, a Q, any other token) changes stage, so
\* stage, 0 at the start, is the number of q read at level 0 and never
\* decreases; a q adds one to level, a Q that does not fail takes one off,
\* and no other step changes level.
C20_DepthAndStage ==
  [][ /\ level = Len(graphicstate) /\ level >= 0
      /\ level' = Len(graphicstate') /\ level' >= 0
      /\ stage >= 0 /\ stage' >= stage
      /\ OpRead("q") =>
           /\ stage' = IF level = 0 THEN stage + 1 ELSE stage
           /\ level' = level + 1
      /\ (OpRead("Q") /\ pc' = "scan") => level' = level - 1
      /\ ~ OpRead("q") => stage' = stage
      /\ ~ (OpRead("q") \/ OpRead("Q")) => level' = level
    ]_vars

\* On the scaled page, the third top-level q has been followed by a nested
\* q: stage is 3 at level 2.
C20_Witness ==
  /\ script = "scaled"
  /\ pc = "scan"
  /\ d = "q"
  /\ stage = 3
  /\ level = 2
  /\ Len(graphicstate) = 2
====
